---- MODULE Spec2Model ----
(***************************************************************************)
(* Model of spectviewer (src/src/main.rs): the acquisition thread `reader` *)
(* that frames the serial byte stream, parses samples, transforms them and *)
(* sends each spectrum over a std::sync::mpsc channel, and the render      *)
(* thread's SpecViewer::update that polls the channel with try_recv.       *)
(*                                                                         *)
(* Bytes are integers 0..255, strings are their UTF-8 byte sequences.      *)
(* An f32 value is kept as the reduced fraction <<numerator, denominator>> *)
(* it denotes exactly (the denominator a power of two); the bins of the    *)
(* FFT are kept symbolically (bin index, transformed buffer).              *)
(***************************************************************************)
EXTENDS Integers, Sequences, FiniteSets, TLC

(* ------------------------------ bounds --------------------------------- *)

\* FFT size. The source fixes N = 8192 (main.rs:28); the model scales it down.
N == 4
\* Capacity of BufReader's internal buffer (8192 in std), scaled down.
BufCap == 6
\* Largest number of well-formed frames at the head of a device stream.
MaxGood == 1

(* --------------------------- byte constants ---------------------------- *)

DELIM == 255
LF == 10
CR == 13
PLUS == 43
ZERO == 48
NINE == 57
U16MAX == 65535

(* ------------------------------ helpers -------------------------------- *)

Min(a, b) == IF a < b THEN a ELSE b

Last(s) == s[Len(s)]

Front(s) == SubSeq(s, 1, Len(s) - 1)

\* Index of the first occurrence of byte b in s, 0 when absent (memchr).
IndexOf(b, s) ==
    IF \E i \in 1..Len(s) : s[i] = b
    THEN CHOOSE i \in 1..Len(s) : s[i] = b /\ \A j \in 1..(i - 1) : s[j] # b
    ELSE 0

RECURSIVE Flatten(_)
Flatten(ss) == IF ss = <<>> THEN <<>> ELSE Head(ss) \o Flatten(Tail(ss))

RECURSIVE SumSeq(_)
SumSeq(s) == IF s = <<>> THEN 0 ELSE Head(s) + SumSeq(Tail(s))

(* --------------------- String::from_utf8 (line 129) -------------------- *)

IsCont(b) == b >= 128 /\ b <= 191

\* Length of the well-formed UTF-8 scalar value at the head of s, 0 if none.
Utf8Step(s) ==
    LET b == s[1]
        n == Len(s)
    IN  IF b <= 127 THEN 1
        ELSE IF b >= 194 /\ b <= 223
            THEN IF n >= 2 /\ IsCont(s[2]) THEN 2 ELSE 0
        ELSE IF b >= 224 /\ b <= 239
            THEN IF n >= 3 /\ IsCont(s[2]) /\ IsCont(s[3])
                    /\ (b = 224 => s[2] >= 160)
                    /\ (b = 237 => s[2] <= 159)
                 THEN 3 ELSE 0
        ELSE IF b >= 240 /\ b <= 244
            THEN IF n >= 4 /\ IsCont(s[2]) /\ IsCont(s[3]) /\ IsCont(s[4])
                    /\ (b = 240 => s[2] >= 144)
                    /\ (b = 244 => s[2] <= 143)
                 THEN 4 ELSE 0
        ELSE 0

RECURSIVE Utf8Valid(_)
Utf8Valid(s) ==
    IF s = <<>> THEN TRUE
    ELSE LET k == Utf8Step(s)
         IN  k > 0 /\ Utf8Valid(SubSeq(s, k + 1, Len(s)))

(* ------------------------ str::lines (line 131) ------------------------ *)

RECURSIVE SplitInclusive(_)
SplitInclusive(s) ==
    IF s = <<>> THEN <<>>
    ELSE LET i == IndexOf(LF, s)
         IN  IF i = 0 THEN <<s>>
             ELSE <<SubSeq(s, 1, i)>> \o SplitInclusive(SubSeq(s, i + 1, Len(s)))

\* A line loses its "\n" and then a "\r" that preceded the "\n".
StripLine(l) ==
    IF l # <<>> /\ Last(l) = LF
    THEN LET m == Front(l)
         IN  IF m # <<>> /\ Last(m) = CR THEN Front(m) ELSE m
    ELSE l

Lines(s) ==
    LET parts == SplitInclusive(s)
    IN  [i \in 1..Len(parts) |-> StripLine(parts[i])]

(* --------------------- str::parse::<u16> (line 132) -------------------- *)

IsDigit(b) == b >= ZERO /\ b <= NINE

RECURSIVE DecVal(_)
DecVal(s) == IF s = <<>> THEN 0 ELSE 10 * DecVal(Front(s)) + (Last(s) - ZERO)

ParseErr == -1

\* u16::from_str: an optional leading '+', then one or more decimal digits,
\* value at most 65535; anything else is an error.
ParseU16(line) ==
    IF line = <<>> THEN ParseErr
    ELSE LET digits == IF line[1] = PLUS THEN Tail(line) ELSE line
         IN  IF digits = <<>> THEN ParseErr
             ELSE IF \E i \in 1..Len(digits) : ~IsDigit(digits[i]) THEN ParseErr
             ELSE IF DecVal(digits) > U16MAX THEN ParseErr
             ELSE DecVal(digits)

\* Variant of ParseSample: a line that does not parse is taken as zero.
ParseSampleZeroFill(line) ==
    LET r == ParseU16(line)
    IN  [ok |-> TRUE, val |-> IF r = ParseErr THEN 0 ELSE r]

\* What the loop of line 131-133 does with one line: push the value, or panic.
ParseSample(line) ==
    LET r == ParseU16(line)
    IN  IF r = ParseErr THEN [ok |-> FALSE, val |-> 0] ELSE [ok |-> TRUE, val |-> r]

\* Index of the first line the loop panics on, 0 when every line parses.
FirstBadLine(ls) ==
    IF \E i \in 1..Len(ls) : ~ParseSample(ls[i]).ok
    THEN CHOOSE i \in 1..Len(ls) :
            /\ ~ParseSample(ls[i]).ok
            /\ \A j \in 1..(i - 1) : ParseSample(ls[j]).ok
    ELSE 0

\* The samples pushed onto d by the loop before it ends or panics.
Pushed(ls) ==
    LET k == FirstBadLine(ls)
        n == IF k = 0 THEN Len(ls) ELSE k - 1
    IN  [i \in 1..n |-> ParseSample(ls[i]).val]

(* -------------------- mean, fftbuf, rfft (138-143) --------------------- *)

RECURSIVE Pow2(_)
Pow2(k) == IF k = 0 THEN 1 ELSE 2 * Pow2(k - 1)

\* An f32 has a significand of 24 bits: 2^23 <= significand < 2^24.
F32Bits == 24
F32Low == Pow2(F32Bits - 1)
F32High == Pow2(F32Bits)

\* p / q rounded to an integer, ties to the even one (p >= 0, q > 0).
RoundHalfEven(p, q) ==
    LET fl == p \div q
        r == p % q
    IN  IF 2 * r < q THEN fl
        ELSE IF 2 * r > q THEN fl + 1
        ELSE IF fl % 2 = 0 THEN fl ELSE fl + 1

\* The f32 nearest to (p / q) * 2^e for p, q > 0, as <<m, x>> meaning
\* m * 2^x with 2^23 <= m < 2^24 (round to nearest, ties to even).
RECURSIVE F32Norm(_, _, _)
F32Norm(p, q, e) ==
    IF p \div q < F32Low
    THEN IF q % 2 = 0 THEN F32Norm(p, q \div 2, e - 1)
                      ELSE F32Norm(2 * p, q, e - 1)
    ELSE IF p \div q >= F32High THEN F32Norm(p, 2 * q, e + 1)
    ELSE LET m == RoundHalfEven(p, q)
         IN  IF m = F32High THEN <<F32Low, e + 1>> ELSE <<m, e>>

\* m * 2^x as a reduced fraction <<numerator, denominator>>.
RECURSIVE Reduced(_, _)
Reduced(m, x) ==
    IF m = 0 THEN <<0, 1>>
    ELSE IF x >= 0 THEN <<m * Pow2(x), 1>>
    ELSE IF m % 2 = 0 THEN Reduced(m \div 2, x + 1)
    ELSE <<m, Pow2(-x)>>

\* The f32 nearest to the rational a / b (b > 0), as a reduced fraction.
F32(a, b) ==
    IF a = 0 THEN <<0, 1>>
    ELSE LET n == F32Norm(IF a < 0 THEN -a ELSE a, b, 0)
         IN  Reduced(IF a < 0 THEN -n[1] ELSE n[1], n[2])

\* sum as f32 / d.len() as f32, line 138 (d not empty).
Mean(dd) ==
    LET sumf == F32(SumSeq(dd), 1)
        lenf == F32(Len(dd), 1)
    IN  F32(sumf[1] * lenf[2], sumf[2] * lenf[1])

\* fftbuf[i] = d[i] as f32 - mean, lines 139-142, every operation in f32.
Centered(dd) ==
    LET mean == Mean(dd)
    IN  [i \in 1..N |-> F32(F32(dd[i], 1)[1] * mean[2] - mean[1], mean[2])]

\* microfft::real::rfft_8192(&mut fftbuf), line 143.  The slice it returns
\* is made by the microfft crate, which is not part of the program's source:
\* the source fixes neither its length nor its values.  A real FFT of N
\* samples has N/2 + 1 non-redundant bins; a transform that works in place
\* returns N/2, the last one packed into bin 0.  The model leaves the choice
\* open: it is made once, when the program starts, and every call agrees.
RfftLens == { N \div 2, N \div 2 + 1 }

\* The spectrum of fftbuf when the transform returns n bins.
Rfft(fftbuf, n) == [k \in 1..n |-> [bin |-> k - 1, of |-> fftbuf]]

(* ------------------------- mpsc channel -------------------------------- *)

\* Variant of Send: the value becomes visible before its last bin is written.
SendTorn(q, v) == Append(q, Front(v))

\* Variant of Send: the value is put in front of the unread ones.
SendFront(q, v) == <<v>> \o q

\* Sender::send: the value is appended to the channel's unbounded queue.
Send(q, v) == Append(q, v)

\* Receiver::try_recv on a non-empty channel: the oldest queued value.
TryRecv(q) == [val |-> Head(q), rest |-> Tail(q)]

(* ------------------- the device's byte streams ------------------------- *)

\* The text of one frame: every line followed by "\n".
Payload(ls) == Flatten([i \in 1..Len(ls) |-> ls[i] \o <<LF>>])

LinesA == [i \in 1..N |-> <<49>>]
LinesB == [i \in 1..N |-> IF i = 1 THEN <<51>> ELSE <<49>>]

FrameA == Payload(LinesA)
FrameB == Payload(LinesB)

\* N samples written with "65535\r\n", "+7\n" and no final newline.
FrameEdge ==
    <<54, 53, 53, 51, 53, CR, LF, PLUS, 55, LF>>
        \o Flatten([i \in 1..(N - 2) |-> IF i = N - 2 THEN <<49>> ELSE <<49, LF>>])

FrameShort == Payload(SubSeq(LinesB, 1, N - 1))
FrameLong == Payload(LinesB \o << <<50>> >>)
FrameEmpty == << >>
FrameBadLine == Payload([LinesA EXCEPT ![2] = <<49, 120>>])
FrameBlankLine == Payload([LinesA EXCEPT ![2] = << >>])
FrameOverflow == Payload([LinesA EXCEPT ![1] = <<54, 53, 53, 51, 54>>])
FrameBadUtf8 == Payload([LinesA EXCEPT ![1] = <<49, 128>>])

\* The first g frames of the alternation A, B, A, ...
GoodPrefix(g) ==
    Flatten([i \in 1..g |-> (IF i % 2 = 1 THEN FrameA ELSE FrameB) \o <<DELIM>>])

TailFrames ==
    { FrameEdge, FrameShort, FrameLong, FrameEmpty, FrameBadLine,
      FrameBlankLine, FrameOverflow, FrameBadUtf8 }

\* What may follow the well-formed frames: nothing, one more delimited frame
\* of any kind, or the start of a frame that never gets its delimiter.
Tails ==
    { << >> } \cup { f \o <<DELIM>> : f \in TailFrames } \cup { <<49, LF, 49>> }

Streams == { GoodPrefix(g) \o t : g \in 0..MaxGood, t \in Tails }

\* Bytes the OS may hold from earlier device activity when reader starts.
StaleBytes == { << >>, <<49, LF, DELIM>> }

(* ------------------------------ state ---------------------------------- *)

VARIABLES
    pc,         \* position of the reader thread
    wire,       \* bytes the device has still to deliver
    rx,         \* bytes received by the OS, not yet read from the port
    inner,      \* bytes held in the BufReader's internal buffer
    buf,        \* reader's byte buffer `buf`
    d,          \* reader's sample buffer `d`
    v,          \* spectrum computed for the current frame
    chan,       \* queue of the mpsc channel
    data,       \* SpecViewer.data
    err,        \* the panic that ended the reader thread
    triggers,   \* number of trigger bytes written to the port
    extracted,  \* number of read_until calls that returned
    published,  \* history: every spectrum sent, in order
    pubFrames,  \* history: the frame text each sent spectrum was made from
    consumed,   \* history: every spectrum obtained by update, in order
    taken,      \* history: every byte read from the port, in order
    handed,     \* history: every byte read_until appended to buf, in order
    lastPoll,   \* what the latest try_recv found of the sender:
                \* "disconnected" if it returned Err(Disconnected)
    pubAtPoll,  \* number of spectra sent when the latest try_recv ran
    portOps,    \* history: the port operations completed, in order
    rfftLen,    \* number of bins rfft_8192 returns
    receiverDropped  \* the channel's Receiver (owned by SpecViewer) is gone

vars ==
    << pc, wire, rx, inner, buf, d, v, chan, data, err, triggers, extracted,
       published, pubFrames, consumed, taken, handed, lastPoll, pubAtPoll,
       portOps, rfftLen, receiverDropped >>

readerVars ==
    << pc, inner, buf, d, v, err, triggers, extracted, published, pubFrames,
       taken, handed, portOps, rfftLen >>

viewerVars == << data, consumed, lastPoll, pubAtPoll, receiverDropped >>

NoErr == [kind |-> "none", msg |-> << >>]

Init ==
    /\ pc = "set_timeout"
    /\ wire \in Streams
    /\ rx \in StaleBytes
    /\ inner = << >>
    /\ buf = << >>
    /\ d = << >>
    /\ v = << >>
    /\ chan = << >>
    /\ data = << >>
    /\ err = NoErr
    /\ triggers = 0
    /\ extracted = 0
    /\ published = << >>
    /\ pubFrames = << >>
    /\ consumed = << >>
    /\ taken = << >>
    /\ handed = << >>
    /\ lastPoll = "connected"
    /\ pubAtPoll = 0
    /\ portOps = << >>
    /\ rfftLen \in RfftLens
    /\ receiverDropped = FALSE

(* --------------------------- the device -------------------------------- *)

\* The device answers triggers: once the first trigger of the session has
\* been written, its bytes arrive one at a time, at any moment.
Deliver ==
    /\ triggers > 0
    /\ wire # << >>
    /\ rx' = Append(rx, Head(wire))
    /\ wire' = Tail(wire)
    /\ UNCHANGED << chan >>
    /\ UNCHANGED readerVars
    /\ UNCHANGED viewerVars

(* ------------------------- reader (100-151) ---------------------------- *)

\* Variant of Panic: the failure is recorded and the loop starts a new read.
PanicRetry(kind, msg) ==
    /\ pc' = "read"
    /\ err' = [kind |-> kind, msg |-> msg]

\* An unwrap() or index that fails: the thread panics and never runs again.
Panic(kind, msg) ==
    /\ pc' = "panicked"
    /\ err' = [kind |-> kind, msg |-> msg]

\* Variant of SetTimeout: a failure to set the time-out is ignored.
SetTimeoutIgnored ==
    /\ pc = "set_timeout"
    /\ pc' = "clear"
    /\ \/ portOps' = Append(portOps, "set_timeout")
       \/ UNCHANGED portOps
    /\ UNCHANGED << wire, rx, inner, buf, d, v, chan, err, triggers, extracted,
                    published, pubFrames, taken, handed >>
    /\ UNCHANGED << rfftLen, viewerVars >>

\* port.set_timeout(..).unwrap(), line 102
SetTimeout ==
    /\ pc = "set_timeout"
    /\ \/ pc' = "clear" /\ portOps' = Append(portOps, "set_timeout")
          /\ UNCHANGED err
       \/ Panic("set_timeout", << >>) /\ UNCHANGED portOps
    /\ UNCHANGED << wire, rx, inner, buf, d, v, chan, triggers, extracted,
                    published, pubFrames, taken, handed >>
    /\ UNCHANGED << rfftLen, viewerVars >>

\* Variant of ClearPort: the call succeeds without discarding anything.
ClearPortKeeps ==
    /\ pc = "clear"
    /\ pc' = "trigger0"
    /\ portOps' = Append(portOps, "clear")
    /\ UNCHANGED << wire, rx, inner, buf, d, v, chan, err, triggers, extracted,
                    published, pubFrames, taken, handed >>
    /\ UNCHANGED << rfftLen, viewerVars >>

\* port.clear(ClearBuffer::All).unwrap(), line 104
ClearPort ==
    /\ pc = "clear"
    /\ \/ pc' = "trigger0" /\ rx' = << >> /\ portOps' = Append(portOps, "clear")
          /\ UNCHANGED err
       \/ Panic("clear", << >>) /\ UNCHANGED << rx, portOps >>
    /\ UNCHANGED << wire, inner, buf, d, v, chan, triggers, extracted,
                    published, pubFrames, taken, handed >>
    /\ UNCHANGED << rfftLen, viewerVars >>

\* port.write_all(b"p").unwrap(), line 106
WriteInitial ==
    /\ pc = "trigger0"
    /\ \/ pc' = "read" /\ triggers' = triggers + 1
          /\ portOps' = Append(portOps, "write") /\ UNCHANGED err
       \/ Panic("write", << >>) /\ UNCHANGED << triggers, portOps >>
    /\ UNCHANGED << wire, rx, inner, buf, d, v, chan, extracted,
                    published, pubFrames, taken, handed >>
    /\ UNCHANGED << rfftLen, viewerVars >>

\* One round of read_until's loop (line 118) on the BufReader of line 117:
\* fill_buf reads up to BufCap bytes from the port, the bytes up to and
\* including the first delimiter go to buf, the others stay in the BufReader.
ReadChunk ==
    /\ pc = "read"
    /\ rx # << >>
    /\ \E n \in 1..Min(BufCap, Len(rx)) :
        LET available == SubSeq(rx, 1, n)
            i == IndexOf(DELIM, available)
            used == IF i = 0 THEN n ELSE i
        IN  /\ rx' = SubSeq(rx, n + 1, Len(rx))
            /\ taken' = taken \o available
            /\ buf' = buf \o SubSeq(available, 1, used)
            /\ handed' = handed \o SubSeq(available, 1, used)
            /\ inner' = SubSeq(available, used + 1, n)
            /\ IF i = 0
               THEN pc' = "read" /\ UNCHANGED << extracted, portOps >>
               ELSE /\ pc' = "trigger"
                    /\ extracted' = extracted + 1
                    /\ portOps' = Append(portOps, "extract")
    /\ UNCHANGED << wire, d, v, chan, err, triggers, published, pubFrames >>
    /\ UNCHANGED << rfftLen, viewerVars >>

\* The port's read fails (time-out, I/O error): read_until(..).unwrap() panics.
ReadError ==
    /\ pc = "read"
    /\ Panic("read", << >>)
    /\ UNCHANGED << wire, rx, inner, buf, d, v, chan, triggers, extracted,
                    published, pubFrames, taken, handed,
                    portOps >>
    /\ UNCHANGED << rfftLen, viewerVars >>

\* The port's read returns Ok(0): read_until returns without a delimiter.
ReadEof ==
    /\ pc = "read"
    /\ rx = << >>
    /\ wire = << >>
    /\ pc' = "trigger"
    /\ extracted' = extracted + 1
    /\ portOps' = Append(portOps, "extract")
    /\ UNCHANGED << wire, rx, inner, buf, d, v, chan, err, triggers,
                    published, pubFrames, taken, handed >>
    /\ UNCHANGED << rfftLen, viewerVars >>

\* Variant of WriteTrigger: the port is taken back but no trigger is written
\* before the frame is processed.
WriteTriggerLate ==
    /\ pc = "trigger"
    /\ inner' = << >>
    /\ pc' = "pop"
    /\ UNCHANGED << wire, rx, buf, d, v, chan, err, triggers, extracted,
                    published, pubFrames, taken, handed, portOps >>
    /\ UNCHANGED << rfftLen, viewerVars >>

\* Variant of WriteTrigger: two trigger bytes are written for one frame.
WriteTriggerTwice ==
    /\ pc = "trigger"
    /\ inner' = << >>
    /\ pc' = "pop"
    /\ triggers' = triggers + 2
    /\ portOps' = portOps \o <<"write", "write">>
    /\ UNCHANGED << wire, rx, buf, d, v, chan, err, extracted,
                    published, pubFrames, taken, handed >>
    /\ UNCHANGED << rfftLen, viewerVars >>

\* port = bufreader.into_inner(); port.write_all(b"p").unwrap(), lines 122-123.
\* into_inner gives the port back and discards the BufReader with its buffer.
WriteTrigger ==
    /\ pc = "trigger"
    /\ inner' = << >>
    /\ \/ pc' = "pop" /\ triggers' = triggers + 1
          /\ portOps' = Append(portOps, "write") /\ UNCHANGED err
       \/ Panic("write", << >>) /\ UNCHANGED << triggers, portOps >>
    /\ UNCHANGED << wire, rx, buf, d, v, chan, extracted,
                    published, pubFrames, taken, handed >>
    /\ UNCHANGED << rfftLen, viewerVars >>

\* buf.pop().unwrap(), line 125
PopDelim ==
    /\ pc = "pop"
    /\ IF buf = << >>
       THEN Panic("pop", << >>) /\ UNCHANGED buf
       ELSE pc' = "decode" /\ buf' = Front(buf) /\ UNCHANGED err
    /\ UNCHANGED << wire, rx, inner, d, v, chan, triggers, extracted,
                    published, pubFrames, taken, handed,
                    portOps >>
    /\ UNCHANGED << rfftLen, viewerVars >>

\* String::from_utf8(buf.clone()).unwrap(), line 129
Decode ==
    /\ pc = "decode"
    /\ IF Utf8Valid(buf)
       THEN pc' = "parse" /\ UNCHANGED err
       ELSE Panic("from_utf8", << >>)
    /\ UNCHANGED << wire, rx, inner, buf, d, v, chan, triggers, extracted,
                    published, pubFrames, taken, handed,
                    portOps >>
    /\ UNCHANGED << rfftLen, viewerVars >>

\* for line in string.lines() { d.push(line.parse().unwrap_or_else(panic)) }
Parse ==
    /\ pc = "parse"
    /\ LET ls == Lines(buf)
           k == FirstBadLine(ls)
       IN  /\ d' = d \o Pushed(ls)
           /\ IF k = 0
              THEN pc' = "transform" /\ UNCHANGED err
              ELSE Panic("parse", ls[k])
    /\ UNCHANGED << wire, rx, inner, buf, v, chan, triggers, extracted,
                    published, pubFrames, taken, handed,
                    portOps >>
    /\ UNCHANGED << rfftLen, viewerVars >>

\* Lines 138-143: the mean over all of d, fftbuf[i] = d[i] - mean for
\* i in 0..N (d[i] panics at i = d.len() when d is shorter), then the FFT.
Transform ==
    /\ pc = "transform"
    /\ IF Len(d) < N
       THEN Panic("index_out_of_bounds", <<Len(d)>>) /\ UNCHANGED v
       ELSE pc' = "send" /\ v' = Rfft(Centered(d), rfftLen) /\ UNCHANGED err
    /\ UNCHANGED << wire, rx, inner, buf, d, chan, triggers, extracted,
                    published, pubFrames, taken, handed,
                    portOps >>
    /\ UNCHANGED << rfftLen, viewerVars >>

\* Variant of Publish: the spectrum of one frame is sent twice.
PublishTwice ==
    /\ pc = "send"
    /\ IF receiverDropped
       THEN /\ Panic("send", << >>)
            /\ UNCHANGED << chan, published, pubFrames, d, buf, v >>
       ELSE /\ chan' = Send(Send(chan, v), v)
            /\ published' = published \o <<v, v>>
            /\ pubFrames' = pubFrames \o <<buf, buf>>
            /\ d' = << >>
            /\ buf' = << >>
            /\ v' = << >>
            /\ pc' = "read"
            /\ UNCHANGED err
    /\ UNCHANGED << wire, rx, inner, triggers, extracted, taken, handed,
                    portOps >>
    /\ UNCHANGED << rfftLen, viewerVars >>

\* Variant of Publish: buf.clear() is left out.
PublishKeepsBuf ==
    /\ pc = "send"
    /\ IF receiverDropped
       THEN /\ Panic("send", << >>)
            /\ UNCHANGED << chan, published, pubFrames, d, v >>
       ELSE /\ chan' = Send(chan, v)
            /\ published' = Append(published, v)
            /\ pubFrames' = Append(pubFrames, buf)
            /\ d' = << >>
            /\ v' = << >>
            /\ pc' = "read"
            /\ UNCHANGED err
    /\ UNCHANGED << wire, rx, inner, buf, triggers, extracted, taken,
                    handed, portOps >>
    /\ UNCHANGED << rfftLen, viewerVars >>

\* channel.send(Vec::from(v)).unwrap(); d = Vec::with_capacity(N);
\* buf.clear(); lines 146-149, and back to the top of the loop.  send
\* returns Err(SendError) once the Receiver is dropped: the unwrap panics
\* and nothing is published.
Publish ==
    /\ pc = "send"
    /\ IF receiverDropped
       THEN /\ Panic("send", << >>)
            /\ UNCHANGED << chan, published, pubFrames, d, buf, v >>
       ELSE /\ chan' = Send(chan, v)
            /\ published' = Append(published, v)
            /\ pubFrames' = Append(pubFrames, buf)
            /\ d' = << >>
            /\ buf' = << >>
            /\ v' = << >>
            /\ pc' = "read"
            /\ UNCHANGED err
    /\ UNCHANGED << wire, rx, inner, triggers, extracted, taken, handed,
                    portOps >>
    /\ UNCHANGED << rfftLen, viewerVars >>

(* ---------------------- SpecViewer::update (31-35) --------------------- *)

\* if let Ok(d) = self.channel.try_recv() { self.data = d; }
UpdateGot ==
    /\ ~receiverDropped
    /\ chan # << >>
    /\ data' = TryRecv(chan).val
    /\ chan' = TryRecv(chan).rest
    /\ consumed' = Append(consumed, TryRecv(chan).val)
    /\ lastPoll' = "connected"
    /\ pubAtPoll' = Len(published)
    /\ UNCHANGED << wire, rx, receiverDropped >>
    /\ UNCHANGED readerVars

\* Variant of UpdateNone: a disconnected channel resets the shown spectrum.
UpdateNoneClears ==
    /\ ~receiverDropped
    /\ chan = << >>
    /\ lastPoll' = IF pc = "panicked" THEN "disconnected" ELSE "connected"
    /\ pubAtPoll' = Len(published)
    /\ data' = IF pc = "panicked" THEN << >> ELSE data
    /\ UNCHANGED << wire, rx, chan, consumed, receiverDropped >>
    /\ UNCHANGED readerVars

\* try_recv returns Err(Empty), or Err(Disconnected) once the sender is gone.
UpdateNone ==
    /\ ~receiverDropped
    /\ chan = << >>
    /\ lastPoll' = IF pc = "panicked" THEN "disconnected" ELSE "connected"
    /\ pubAtPoll' = Len(published)
    /\ UNCHANGED << wire, rx, chan, data, consumed, receiverDropped >>
    /\ UNCHANGED readerVars

Update == UpdateGot \/ UpdateNone

(* ------------------------- main (176-185) ------------------------------ *)

\* eframe::run_native returns (the window is closed, or it could not be
\* opened): the SpecViewer, or the closure that holds the Receiver, is
\* dropped.  The Receiver, the spectra still queued and the spectrum held in
\* data are freed, update is never called again, and the reader thread runs
\* on until main returns.
DropReceiver ==
    /\ ~receiverDropped
    /\ receiverDropped' = TRUE
    /\ chan' = << >>
    /\ data' = << >>
    /\ lastPoll' = "connected"
    /\ pubAtPoll' = 0
    /\ UNCHANGED << wire, rx, consumed >>
    /\ UNCHANGED readerVars

Reader ==
    \/ SetTimeout
    \/ ClearPort
    \/ WriteInitial
    \/ ReadChunk
    \/ ReadError
    \/ ReadEof
    \/ WriteTrigger
    \/ PopDelim
    \/ Decode
    \/ Parse
    \/ Transform
    \/ Publish

Next == Deliver \/ Reader \/ Update \/ DropReceiver

Spec == Init /\ [][Next]_vars

\* The render loop repaints continuously (ctx.request_repaint, line 95).
LiveSpec == Spec /\ WF_vars(Update)

(* ============================== claims ================================= *)

\* The spectrum a complete run of lines 131-143 makes from a frame's text.
SpectrumOf(frame) == Rfft(Centered(Pushed(Lines(frame))), rfftLen)

LastPublished == IF published = << >> THEN << >> ELSE Last(published)

\* The reader has run its parse loop on the frame now in buf.
ParseActed ==
    \/ pc \in {"transform", "send"}
    \/ pc = "panicked" /\ err.kind \in {"parse", "index_out_of_bounds", "send"}

\* The reader has run lines 138-143 on the frame now in buf.
TransformActed ==
    \/ pc = "send"
    \/ pc = "panicked" /\ err.kind \in {"index_out_of_bounds", "send"}

\* A line is the text of a u16: an optional '+', then digits, at most 65535.
IsU16Text(l) ==
    /\ l # << >>
    /\ LET ds == IF l[1] = PLUS THEN Tail(l) ELSE l
       IN  /\ ds # << >>
           /\ \A i \in 1..Len(ds) : ds[i] \in ZERO..NINE
           /\ DecVal(ds) <= U16MAX

(* ------------------------------- C1 ------------------------------------ *)

\* C1: a poll that obtains a spectrum obtains the one most recently
\* published at that moment; after two publishes with no poll in between,
\* one poll yields the second spectrum and never the first.
C1_MostRecentValue ==
    [][consumed' # consumed => data' = Last(published)]_vars

(* ------------------------------- C2 ------------------------------------ *)

\* C2: at most one published and not yet consumed spectrum exists; a
\* publish over an unread spectrum drops that spectrum.
C2_SingleSlot == Len(chan) <= 1

(* ------------------------------- C3 ------------------------------------ *)

\* C3 (as claimed): of the bytes read from the transport, those up to and
\* including the delimiter go to the frame and every byte after it remains
\* available to the next frame extraction.
C3_FramingRoundTrip == taken = handed \o inner

(* ------------------------------- C4 ------------------------------------ *)

\* C4 (as claimed): every published spectrum comes from a frame of exactly
\* N samples.
C4_ExactlyN ==
    \A i \in 1..Len(pubFrames) : Len(Lines(pubFrames[i])) = N

(* ------------------------------- C5 ------------------------------------ *)

\* C5 (as claimed): a frame of fewer than N samples ends the pipeline with
\* an insufficient-samples failure, never with an index past the end of the
\* sample buffer, and no spectrum is published for it.
C5_ShortFrameRejected ==
    (TransformActed /\ Len(d) < N) =>
        /\ pc = "panicked"
        /\ err.kind = "insufficient_samples"
        /\ Len(published) = extracted - 1

(* ------------------------------- C6 ------------------------------------ *)

\* C6: when a line of the decoded frame is not the text of an unsigned
\* integer, the parse loop panics on the first such line with that line's
\* raw text as its message, having pushed exactly the samples of the lines
\* before it, and the frame is not published.
C6_MalformedLineRejected ==
    LET ls == Lines(buf)
        bad == { i \in 1..Len(ls) : ~IsU16Text(ls[i]) }
    IN  (ParseActed /\ bad # {}) =>
            /\ pc = "panicked"
            /\ err.kind = "parse"
            /\ \E k \in bad :
                /\ \A j \in bad : k <= j
                /\ err.msg = ls[k]
                /\ Len(d) = k - 1
            /\ Len(published) = extracted - 1

\* The frame with the line "1x" was parsed and the panic reports "1x".
C6_Witness ==
    /\ pc = "panicked"
    /\ err = [kind |-> "parse", msg |-> <<49, 120>>]
    /\ buf = FrameBadLine

(* ------------------------------- C7 ------------------------------------ *)

\* C7: the spectrum the consumer holds is the initial empty value or, bin
\* for bin, the complete spectrum of one published frame.
C7_AtomicPublish ==
    /\ [](data = << >> \/ \E i \in 1..Len(published) : data = published[i])
    /\ [][published' # published => Last(published') = SpectrumOf(buf)]_vars

\* Two different spectra were published and the consumer holds the second.
C7_Witness ==
    /\ Len(published) = 2
    /\ published[1] # published[2]
    /\ data = published[2]

(* ------------------------------- C8 ------------------------------------ *)

\* C8 is about the number of bins rfft_8192 returns.  That number is set by
\* the microfft crate and by nothing in the program's source, so it is left
\* open here (rfftLen) and no formula about it is stated.

(* ------------------------------- C9 ------------------------------------ *)

\* The frame cannot pass decoding, parsing and the transform.
FatalFrame(f) ==
    \/ ~Utf8Valid(f)
    \/ \E i \in 1..Len(Lines(f)) : ~IsU16Text(Lines(f)[i])
    \/ Len(Lines(f)) < N

\* C9: a failure ends the loop for good: a recorded failure means the thread
\* is gone, no published spectrum comes from a failing frame, and once the
\* thread is gone it reads nothing, sends no trigger and publishes nothing.
C9_FatalErrorTerminates ==
    /\ [](err # NoErr => pc = "panicked")
    /\ [](\A i \in 1..Len(pubFrames) : ~FatalFrame(pubFrames[i]))
    /\ [][pc = "panicked" =>
            /\ pc' = "panicked"
            /\ err' = err
            /\ taken' = taken
            /\ extracted' = extracted
            /\ triggers' = triggers
            /\ published' = published]_vars

\* The loop published a spectrum and then died on a malformed frame.
C9_Witness ==
    /\ pc = "panicked"
    /\ err.kind \in {"parse", "from_utf8", "index_out_of_bounds", "read",
                    "send"}
    /\ Len(published) >= 1
    /\ extracted > Len(published)

(* ------------------------------- C10 ----------------------------------- *)

\* C10: once the loop has terminated on a failure, the spectrum the consumer
\* holds eventually is the last one published, and stays so, for as long as
\* the consumer runs (its window is not closed).
C10_LastSpectrumStays ==
    [](pc = "panicked" => <>[](receiverDropped \/ data = LastPublished))

\* The loop died after two publishes; the consumer has drained the queue
\* and holds the second spectrum.
C10_Witness ==
    /\ pc = "panicked"
    /\ ~receiverDropped
    /\ lastPoll = "disconnected"
    /\ Len(published) = 2
    /\ published[1] # published[2]
    /\ data = published[2]

(* ------------------------------- C11 ----------------------------------- *)

\* C11: while the consumer exists a poll can always run, whatever the reader
\* is doing, and a poll made when no spectrum has been published since the
\* previous poll (or none at all) leaves the spectrum the consumer holds
\* unchanged.
C11_PollNeverBlocks ==
    /\ [](~receiverDropped => ENABLED Update)
    /\ [][(Update /\ Len(published) = pubAtPoll) => data' = data]_vars

(* ------------------------------- C12 ----------------------------------- *)

\* The reader is decoding, parsing, transforming or sending the frame in buf,
\* or has panicked doing so.
Processing ==
    \/ pc \in {"decode", "parse", "transform", "send"}
    \/ /\ pc = "panicked"
       /\ err.kind \in {"from_utf8", "parse", "index_out_of_bounds", "send"}

\* C12: a trigger is written in the loop only right after a frame has been
\* extracted, one per frame, and while a frame is processed the trigger for
\* the next one has already been written.
C12_IssueBeforeProcess ==
    /\ [](Processing => (triggers = extracted + 1 /\ Last(portOps) = "write"))
    /\ [][(triggers' # triggers /\ extracted > 0) =>
            /\ pc = "trigger"
            /\ Last(portOps) = "extract"
            /\ triggers = extracted
            /\ triggers' = triggers + 1]_vars

\* The second frame is being parsed and its trigger was written before.
C12_Witness ==
    /\ pc = "parse"
    /\ extracted = 2
    /\ triggers = 3
    /\ portOps = <<"set_timeout", "clear", "write", "extract", "write",
                   "extract", "write">>

(* ------------------------------- C13 ----------------------------------- *)

\* The stage of the loop the reader is in.
Stage ==
    CASE pc \in {"read", "trigger", "pop"} -> "AwaitFrame"
      [] pc \in {"decode", "parse"} -> "Parse"
      [] pc = "transform" -> "Transform"
      [] pc = "send" -> "Publish"
      [] pc = "panicked" -> "Failed"
      [] OTHER -> "Init"

StageOrder ==
    { <<"Init", "Init">>, <<"Init", "AwaitFrame">>, <<"Init", "Failed">>,
      <<"AwaitFrame", "AwaitFrame">>, <<"AwaitFrame", "Parse">>,
      <<"AwaitFrame", "Failed">>,
      <<"Parse", "Parse">>, <<"Parse", "Transform">>, <<"Parse", "Failed">>,
      <<"Transform", "Transform">>, <<"Transform", "Publish">>,
      <<"Transform", "Failed">>,
      <<"Publish", "Publish">>, <<"Publish", "AwaitFrame">>,
      <<"Publish", "Failed">>,
      <<"Failed", "Failed">> }

StageStep == <<Stage, Stage'>> \in StageOrder

\* C13: the stages follow one another only in the order AwaitFrame, Parse,
\* Transform, Publish, AwaitFrame, leaving it only on a failure; every
\* published spectrum is the transform of the frame extracted in the same
\* iteration, and a frame that went round the loop has exactly one spectrum.
C13_StageCycle ==
    /\ [][StageStep]_vars
    /\ [](pc \in {"trigger", "pop", "decode", "parse", "transform", "send"}
            => Len(published) = extracted - 1)
    /\ [](pc = "read" => Len(published) = extracted)
    /\ [][published' # published =>
            /\ Stage = "Publish"
            /\ Len(published') = Len(published) + 1
            /\ Len(published') = extracted
            /\ Last(published') = SpectrumOf(buf)]_vars

\* The loop is back at AwaitFrame after two complete rounds.
C13_Witness ==
    /\ pc = "read"
    /\ extracted = 2
    /\ Len(published) = 2
    /\ published[1] # published[2]

(* ------------------------------- C14 ----------------------------------- *)

InitOps == <<"set_timeout", "clear", "write">>

\* The three port operations of lines 102-106 have completed, in order.
InitDone == Len(portOps) >= 3 /\ SubSeq(portOps, 1, 3) = InitOps

\* C14: the port operations start with set_timeout, clear, write in that
\* order; nothing is read and the loop is not entered before the three have
\* completed, and a panic before that leaves the loop unentered.
C14_InitOrder ==
    /\ \A i \in 1..Min(3, Len(portOps)) : portOps[i] = InitOps[i]
    /\ (taken # << >> \/ extracted > 0 \/ Stage \notin {"Init", "Failed"})
            => InitDone
    /\ (pc = "panicked" /\ ~InitDone) =>
            /\ err.kind \in {"set_timeout", "clear", "write"}
            /\ taken = << >>
            /\ extracted = 0
            /\ published = << >>

\* The first bytes have been read, after exactly the three operations.
C14_Witness ==
    /\ pc = "read"
    /\ taken # << >>
    /\ portOps = InitOps

(* ------------------------------- C15 ----------------------------------- *)

NumClears == Cardinality({ i \in 1..Len(portOps) : portOps[i] = "clear" })

\* C15 (as claimed): every read cycle, not only the first, is preceded by a
\* buffer clear of its own.
C15_ClearEveryCycle == pc = "read" => NumClears = extracted + 1

\* C15 (amended): the transport buffer is cleared once, before the first
\* read cycle: the stale bytes are discarded, so that what the reader gets
\* is the device's stream from its start, and no later iteration clears.
C15_ClearOnce ==
    Len(portOps) >= 2 =>
        /\ NumClears = 1
        /\ portOps[2] = "clear"
        /\ (taken \o rx \o wire) \in Streams

\* The third read cycle has started and the port was cleared only once.
C15_Witness ==
    /\ pc = "read"
    /\ extracted = 2
    /\ NumClears = 1

(* ------------------------------- C16 ----------------------------------- *)

\* C16 (as claimed): the byte stripped from the end of a frame is always the
\* 0xFF delimiter, so the bytes of a read that ended without the delimiter
\* never reach decoding and parsing.
C16_OnlyDelimiterStripped ==
    [][(pc = "pop" /\ pc' = "decode") => Last(buf) = DELIM]_vars

(* ------------------------------- C17 ----------------------------------- *)

\* C17: the spectra the consumer obtained are, in order, the first ones
\* published, and the one it holds, while it exists, is the latest it
\* obtained.
C17_ProductionOrder ==
    /\ Len(consumed) <= Len(published)
    /\ \A i \in 1..Len(consumed) : consumed[i] = published[i]
    /\ ~receiverDropped =>
            data = IF consumed = << >> THEN << >> ELSE Last(consumed)

\* The consumer obtained two different spectra over two polls.
C17_Witness ==
    /\ Len(consumed) = 2
    /\ consumed[1] # consumed[2]
    /\ data = published[2]

(* ------------------------------- C18 ----------------------------------- *)

\* C18: when the loop starts a frame read both buffers are empty; the byte
\* buffer never holds more than the frame being read, and the samples sent
\* to the transform are those of the frame in the byte buffer.
C18_NoCarryOver ==
    /\ [][(pc' = "read" /\ pc # "read") => (buf' = << >> /\ d' = << >>)]_vars
    /\ [](pc = "read" => (d = << >> /\ IndexOf(DELIM, buf) = 0))
    /\ [](pc \in {"trigger", "pop"} => IndexOf(DELIM, buf) \in {0, Len(buf)})
    /\ [](pc \in {"transform", "send"} => d = Pushed(Lines(buf)))

\* The second frame read starts, after one publish, with both buffers empty.
C18_Witness ==
    /\ pc = "read"
    /\ Len(published) = 1
    /\ extracted = 1
    /\ buf = << >>
    /\ d = << >>
    /\ rx # << >>

(* ------------------------------- C19 ----------------------------------- *)

\* C19: the triggers written exceed the frames extracted by 0 or 1, and by
\* exactly 1 whenever the loop is in a frame read.
C19_OutstandingRequest ==
    /\ triggers - extracted \in {0, 1}
    /\ pc = "read" => triggers - extracted = 1

\* The loop waits for its third frame with one request outstanding.
C19_Witness ==
    /\ pc = "read"
    /\ extracted = 2
    /\ triggers = 3
    /\ rx = << >>

====
